---- MODULE Spec2Model ----
(***************************************************************************)
(* TableRoot (composition-pattern/root.tsx) and the table context          *)
(* (table-context.tsx) as a state machine.                                 *)
(*                                                                         *)
(* State: the props of the last render, the useMemo cache of the augmented *)
(* column list, the useState slots columnOrder and tableData, the chain of *)
(* TableProviders enclosing the TableRoot, and a record of the last        *)
(* operation (history, used to state the claims).                          *)
(***************************************************************************)
EXTENDS Integers, Sequences, FiniteSets, TLC

VARIABLES
    columns,             \* prop: the caller's column descriptors, in order
    enableSelection,     \* prop
    enableExpansion,     \* prop
    enableEditing,       \* prop
    enableColumnReorder, \* prop
    memoCols,            \* useMemo cache: the augmented column list
    columnOrder,         \* useState<string[]>
    tableData,           \* useState(data)
    mount,               \* history: what the first render built
    outer,               \* TableProviders enclosing this TableRoot, outermost first
    renders,             \* re-renders with changed props so far
    reservedDragged,     \* history: some drag so far had a reserved id as its active id
    last                 \* history: the last operation, its inputs and its pre-state

vars == <<columns, enableSelection, enableExpansion, enableEditing,
          enableColumnReorder, memoCols, columnOrder, tableData, mount, outer,
          renders, reservedDragged, last>>

----------------------------------------------------------------------------
(* Bounds of the model *)

MaxCols == 2      \* longest caller column list
MaxRows == 2      \* longest initial row set
MaxIndex == 3     \* largest rowIndex handed to updateData
MaxOuter == 1     \* deepest nesting of foreign TableProviders around the root
MaxRenders == 1   \* re-renders with changed props that are followed

(* JavaScript values *)

Undefined == "undefined"   \* the value undefined: a missing id, an array hole,
                           \* the context's default
Null == "null"             \* an absent drag endpoint (event.over === null)

ColIds == {"a", "b"}                          \* ids callers give their columns
Reserved == {"select", "expand", "select-expand"}
ForeignId == "z"                              \* an id no column carries
DragIds == ColIds \cup Reserved \cup {ForeignId}
RowVals == {"r1", "r2"}

Min(a, b) == IF a < b THEN a ELSE b
Max(a, b) == IF a > b THEN a ELSE b

SeqsUpTo(S, n) == UNION {[1..k -> S] : k \in 0..n}

\* a column descriptor; only its id matters to the logic of TableRoot
Col(id) == [id |-> id]
ColumnLists == SeqsUpTo({Col(i) : i \in ColIds \cup {Undefined}}, MaxCols)

----------------------------------------------------------------------------
(* Column augmentation: the useMemo of root.tsx, lines 68-160 *)

\* a slip: the selection branch tested first and alone, so that both flags
\* give the select column
memoColumnsSelectionFirst(cols, selection, expansion) ==
    IF selection
    THEN <<Col("select")>> \o cols
    ELSE IF expansion
    THEN <<Col("expand")>> \o cols
    ELSE cols

memoColumns(cols, selection, expansion) ==
    IF selection /\ expansion
    THEN <<Col("select-expand")>> \o cols
    ELSE IF selection /\ ~expansion
    THEN <<Col("select")>> \o cols
    ELSE IF expansion /\ ~selection
    THEN <<Col("expand")>> \o cols
    ELSE cols

\* JavaScript truthiness of a column id: undefined and "" are falsy
Truthy(v) == v # Undefined /\ v # ""

\* the initializer handed to useState<string[]>, lines 162-164
initialColumnOrder(memo, reorder) ==
    [i \in 1..Len(memo) |-> IF reorder /\ Truthy(memo[i].id) THEN memo[i].id ELSE ""]

----------------------------------------------------------------------------
(* Array primitives of JavaScript, with 0-based indices as the code uses them *)

\* Array.prototype.indexOf: the first index holding x, or -1
IndexOf(arr, x) ==
    IF \E i \in 1..Len(arr) : arr[i] = x
    THEN (CHOOSE i \in 1..Len(arr) : arr[i] = x /\ \A j \in 1..(i - 1) : arr[j] # x) - 1
    ELSE -1

\* the start index splice works from: negative counts from the end, clamped to 0..len
SpliceStart(len, start) ==
    IF start < 0 THEN Max(len + start, 0) ELSE Min(start, len)

\* arr after arr.splice(start, 1)
SpliceOut(arr, start) ==
    LET s == SpliceStart(Len(arr), start)
    IN  IF s < Len(arr)
        THEN SubSeq(arr, 1, s) \o SubSeq(arr, s + 2, Len(arr))
        ELSE arr

\* arr.splice(start, 1)[0]: the removed element, undefined when nothing was removed
SplicedItem(arr, start) ==
    LET s == SpliceStart(Len(arr), start)
    IN  IF s < Len(arr) THEN arr[s + 1] ELSE Undefined

\* arr after arr.splice(start, 0, item)
SpliceIn(arr, start, item) ==
    LET s == SpliceStart(Len(arr), start)
    IN  SubSeq(arr, 1, s) \o <<item>> \o SubSeq(arr, s + 1, Len(arr))

\* arrayMove of @dnd-kit/sortable: on a copy, the insertion index is computed
\* first (with the length before the removal), then the element at `from` is
\* spliced out, then spliced in at the insertion index
arrayMove(array, from, to) ==
    LET target == IF to < 0 THEN Len(array) + to ELSE to
        item   == SplicedItem(array, from)
        rest   == SpliceOut(array, from)
    IN  SpliceIn(rest, target, item)

----------------------------------------------------------------------------
(* handleDragEnd, lines 194-203 *)

\* a slip: the test of the reserved target ids left out
DragAcceptedAnyTarget(active, over) ==
    /\ active # Null
    /\ over # Null
    /\ active # over

\* a slip: the combined id missing from the list of reserved target ids
DragAcceptedTwoReserved(active, over) ==
    /\ active # Null
    /\ over # Null
    /\ active # over
    /\ over \notin {"select", "expand"}

\* the condition of line 196; an endpoint is Null or the id it carries
DragAccepted(active, over) ==
    /\ active # Null
    /\ over # Null
    /\ active # over
    /\ over \notin {"select", "expand", "select-expand"}

\* a slip: the two indices handed to arrayMove in the wrong order
MovedOrderSwapped(order, active, over) ==
    LET oldIndex == IndexOf(order, active)
        newIndex == IndexOf(order, over)
    IN  arrayMove(order, newIndex, oldIndex)

\* the updater handed to setColumnOrder, lines 197-201
MovedOrder(order, active, over) ==
    LET oldIndex == IndexOf(order, active)
        newIndex == IndexOf(order, over)
    IN  arrayMove(order, oldIndex, newIndex)

handleDragEnd(order, active, over) ==
    IF DragAccepted(active, over) THEN MovedOrder(order, active, over) ELSE order

----------------------------------------------------------------------------
(* updateData, lines 60-66 *)

\* arr after arr[index] = value, index >= 0: an index past the end grows the
\* array, the skipped slots being holes that read as undefined
ArraySet(arr, index, value) ==
    [i \in 1..Max(Len(arr), index + 1) |->
        IF i = index + 1 THEN value
        ELSE IF i <= Len(arr) THEN arr[i]
        ELSE Undefined]

\* a slip: the row inserted at the index instead of assigned to it
updateDataInserting(prevData, rowIndex, updatedData) ==
    SpliceIn(prevData, rowIndex, updatedData)

\* the updater handed to setTableData: copy, assign, return
updateData(prevData, rowIndex, updatedData) ==
    ArraySet(prevData, rowIndex, updatedData)

----------------------------------------------------------------------------
(* The table context, table-context.tsx *)

ErrNoProvider == "useTableContext must be used within a TableProvider"

\* the value TableProvider publishes, line 34; table and updateData are opaque
ProviderValue(table, update, editing, reorder, order) ==
    [table |-> table, updateData |-> update, enableEditing |-> editing,
     enableColumnReorder |-> reorder, columnOrder |-> order]

\* the value this TableRoot hands to its TableProvider, lines 215-221 and 229-235
RootValue ==
    ProviderValue("table", "updateData", enableEditing, enableColumnReorder, columnOrder)

\* values of TableProviders of other tables, higher up in the tree
OuterValues ==
    {ProviderValue("table1", "updateData1", TRUE, FALSE, <<"">>),
     ProviderValue("table2", "updateData2", FALSE, TRUE, <<"b", "a">>)}

\* what useContext(TableContext) can give: <<>> stands for undefined, the default
\* of createContext (line 15), <<v>> for the provided value v
NoContext == <<>>

\* React's useContext(TableContext): the value of the nearest enclosing
\* provider, the default when there is none
useContext(chain) ==
    IF Len(chain) = 0 THEN NoContext ELSE <<chain[Len(chain)]>>

\* a slip: the context returned without the check
useTableContextUnchecked(chain) ==
    [error |-> Undefined, value |-> useContext(chain)]

\* useTableContext, lines 17-23: what it throws and what it returns
useTableContext(chain) ==
    LET context == useContext(chain)
    IN  IF context = NoContext
        THEN [error |-> ErrNoProvider, value |-> NoContext]
        ELSE [error |-> Undefined, value |-> context]

\* the providers around a component: one rendered among the children of this
\* TableRoot sits inside its TableProvider, one rendered beside it does not
ChainAt(site) ==
    IF site = "inside" THEN Append(outer, RootValue) ELSE outer

----------------------------------------------------------------------------
(* The state machine *)

RowLists == SeqsUpTo(RowVals, MaxRows)
OuterChains == SeqsUpTo(OuterValues, MaxOuter)
Endpoints == DragIds \cup {Null}

NoOp ==
    [op |-> "mount", active |-> Undefined, over |-> Undefined,
     rowIndex |-> -1, updatedData |-> Undefined, site |-> Undefined,
     prevOrder |-> <<>>, prevData |-> <<>>, error |-> Undefined, value |-> NoContext]

\* the id of the column memoColumns prepends, undefined when it prepends none
Synthetic(selection, expansion) ==
    IF selection \/ expansion
    THEN memoColumns(<<>>, selection, expansion)[1].id
    ELSE Undefined

\* the first render of TableRoot
Mount(cols, selection, expansion, editing, reorder, data, chain) ==
    /\ columns = cols
    /\ enableSelection = selection
    /\ enableExpansion = expansion
    /\ enableEditing = editing
    /\ enableColumnReorder = reorder
    /\ memoCols = memoColumns(cols, selection, expansion)
    /\ columnOrder = initialColumnOrder(memoColumns(cols, selection, expansion), reorder)
    /\ tableData = data
    /\ mount = [columnOrder |-> initialColumnOrder(memoColumns(cols, selection, expansion), reorder),
                synthetic |-> Synthetic(selection, expansion),
                reorder |-> reorder]
    /\ outer = chain
    /\ renders = 0
    /\ reservedDragged = FALSE
    /\ last = NoOp

Init ==
    \E cols \in ColumnLists, selection \in BOOLEAN, expansion \in BOOLEAN,
       editing \in BOOLEAN, reorder \in BOOLEAN, data \in RowLists, chain \in OuterChains :
        Mount(cols, selection, expansion, editing, reorder, data, chain)

\* a drag ends; DndContext, and with it onDragEnd, is rendered only when
\* enableColumnReorder is set (lines 207-214)
HandleDragEnd ==
    /\ enableColumnReorder
    /\ \E active \in Endpoints, over \in Endpoints :
        /\ columnOrder' = handleDragEnd(columnOrder, active, over)
        /\ reservedDragged' = (reservedDragged \/ active \in Reserved)
        /\ last' = [NoOp EXCEPT !.op = "drag", !.active = active, !.over = over,
                                !.prevOrder = columnOrder]
    /\ UNCHANGED <<columns, enableSelection, enableExpansion, enableEditing,
                   enableColumnReorder, memoCols, tableData, mount, outer, renders>>

\* a descendant calls the updateData of the context
UpdateData ==
    /\ \E rowIndex \in 0..MaxIndex, updatedData \in RowVals :
        /\ tableData' = updateData(tableData, rowIndex, updatedData)
        /\ last' = [NoOp EXCEPT !.op = "update", !.rowIndex = rowIndex,
                                !.updatedData = updatedData, !.prevData = tableData]
    /\ UNCHANGED <<columns, enableSelection, enableExpansion, enableEditing,
                   enableColumnReorder, memoCols, columnOrder, mount, outer,
                   renders, reservedDragged>>

\* the parent renders TableRoot again with one prop changed (several changed
\* props are several such steps): useMemo recomputes the augmented columns (its
\* dependencies, line 160), the useState slots keep their values (their
\* initializers run on the first render only)
Rerender ==
    /\ renders < MaxRenders
    /\ renders' = renders + 1
    /\ \E cols \in ColumnLists, selection \in BOOLEAN, expansion \in BOOLEAN,
          reorder \in BOOLEAN :
        /\ Cardinality({i \in 1..4 :
               <<cols, selection, expansion, reorder>>[i] #
               <<columns, enableSelection, enableExpansion, enableColumnReorder>>[i]}) = 1
        /\ columns' = cols
        /\ enableSelection' = selection
        /\ enableExpansion' = expansion
        /\ enableColumnReorder' = reorder
        /\ memoCols' = memoColumns(cols, selection, expansion)
    /\ last' = [NoOp EXCEPT !.op = "render"]
    /\ UNCHANGED <<enableEditing, columnOrder, tableData, mount, outer, reservedDragged>>

\* a component calls useTableContext() while rendering
UseTableContext ==
    /\ \E site \in {"inside", "outside"} :
        last' = [NoOp EXCEPT !.op = "consume", !.site = site,
                             !.error = useTableContext(ChainAt(site)).error,
                             !.value = useTableContext(ChainAt(site)).value]
    /\ UNCHANGED <<columns, enableSelection, enableExpansion, enableEditing,
                   enableColumnReorder, memoCols, columnOrder, tableData, mount, outer,
                   renders, reservedDragged>>

Next == HandleDragEnd \/ UpdateData \/ Rerender \/ UseTableContext

Spec == Init /\ [][Next]_vars

\* the column order under drags alone
InitColumns ==
    \E cols \in ColumnLists, selection \in BOOLEAN, expansion \in BOOLEAN,
       reorder \in BOOLEAN :
        Mount(cols, selection, expansion, FALSE, reorder, <<>>, <<>>)

NextDrag == HandleDragEnd

SpecDrag == InitColumns /\ [][NextDrag]_vars

\* the augmented columns under re-renders
NextColumns == Rerender

SpecColumns == InitColumns /\ [][NextColumns]_vars

\* the column order against the augmented columns, under drags and re-renders
NextRender == HandleDragEnd \/ Rerender

SpecRender == InitColumns /\ [][NextRender]_vars

\* the row set under updateData
InitData ==
    \E data \in RowLists : Mount(<<Col("a")>>, FALSE, FALSE, TRUE, FALSE, data, <<>>)

NextData == UpdateData

SpecData == InitData /\ [][NextData]_vars

\* the context under drags and consumers
InitContext ==
    \E cols \in ColumnLists, editing \in BOOLEAN, reorder \in BOOLEAN, chain \in OuterChains :
        Mount(cols, TRUE, FALSE, editing, reorder, <<>>, chain)

NextContext == HandleDragEnd \/ UseTableContext

SpecContext == InitContext /\ [][NextContext]_vars

----------------------------------------------------------------------------
(* Vocabulary of the claims *)

Occurs(seq, x) == \E i \in 1..Len(seq) : seq[i] = x

\* the first position (from 1) at which x stands in seq
FirstPos(seq, x) == CHOOSE i \in 1..Len(seq) : seq[i] = x /\ \A j \in 1..(i - 1) : seq[j] # x

\* seq with the entry at position k left out
Without(seq, k) == [n \in 1..(Len(seq) - 1) |-> IF n < k THEN seq[n] ELSE seq[n + 1]]

Count(seq, x) == Cardinality({i \in 1..Len(seq) : seq[i] = x})

Entries(seq) == {seq[i] : i \in 1..Len(seq)}

SameMultiset(s, t) ==
    /\ Len(s) = Len(t)
    /\ \A x \in Entries(s) \cup Entries(t) : Count(s, x) = Count(t, x)

\* the last operation was a drag-end event the handler acts on, with both ids
\* in the column order it found
DragOfListedIds ==
    /\ last.op = "drag"
    /\ last.active # Null
    /\ last.over # Null
    /\ last.active # last.over
    /\ last.over \notin Reserved
    /\ Occurs(last.prevOrder, last.active)
    /\ Occurs(last.prevOrder, last.over)

----------------------------------------------------------------------------
(* C1: in every reachable state of TableRoot the column-order list is as long
   as the augmented column list. *)
C1_OrderLengthIsAugmentedLength ==
    Len(columnOrder) = Len(memoCols)

(* C2: a drag-end event with both endpoints present, different ids, a target
   that is not reserved and both ids in the column order yields the old order
   with the active id taken out and put back at the index the over id held;
   all other ids keep their relative order. *)
C2_DragRelocatesActive ==
    DragOfListedIds =>
        LET prev == last.prevOrder
            from == FirstPos(prev, last.active)
            to   == FirstPos(prev, last.over)
        IN  /\ Len(columnOrder) = Len(prev)
            /\ columnOrder[to] = last.active
            /\ Without(columnOrder, to) = Without(prev, from)

\* dragging A onto X in [X, A, Y] gave [A, X, Y]
C2_Witness ==
    /\ DragOfListedIds
    /\ last.prevOrder = <<"a", "select", "b">>
    /\ last.active = "select"
    /\ last.over = "a"
    /\ columnOrder = <<"select", "a", "b">>

(* C3: a drag-end event leaves the column order unchanged when the active
   endpoint is absent, the over endpoint is absent, the two ids are equal, or
   the over id is select, expand or select-expand. *)
C3_RejectedDragIsNoOp ==
    (/\ last.op = "drag"
     /\ \/ last.active = Null
        \/ last.over = Null
        \/ last.active = last.over
        \/ last.over \in Reserved)
    => columnOrder = last.prevOrder

\* a listed column was dropped on the synthetic column, in an order earlier
\* drags had already changed
C3_Witness ==
    /\ last.op = "drag"
    /\ last.over \in Reserved
    /\ last.active \in ColIds
    /\ Occurs(last.prevOrder, last.over)
    /\ Occurs(last.prevOrder, last.active)
    /\ last.prevOrder # mount.columnOrder
    /\ columnOrder = last.prevOrder

(* C4: a drag-end event whose over id is not reserved and does not occur in
   the column order, with the active id in the order and different from the
   over id, leaves the column order unchanged. *)
C4_UnknownTargetIsNoOp ==
    (/\ last.op = "drag"
     /\ last.active # Null
     /\ last.over # Null
     /\ last.active # last.over
     /\ last.over \notin Reserved
     /\ Occurs(last.prevOrder, last.active)
     /\ ~Occurs(last.prevOrder, last.over))
    => columnOrder = last.prevOrder

(* C5: updateData(i, r) with 0 <= i < N on a row set of length N yields a row
   set of length N whose index i holds r and whose other indices hold what
   they held, also after earlier updateData calls. *)
C5_UpdateReplacesOneRow ==
    (last.op = "update" /\ last.rowIndex < Len(last.prevData)) =>
        /\ Len(tableData) = Len(last.prevData)
        /\ tableData[last.rowIndex + 1] = last.updatedData
        /\ \A k \in 1..Len(tableData) :
               k # last.rowIndex + 1 => tableData[k] = last.prevData[k]

\* a row in the middle was replaced in a row set earlier calls had changed
C5_Witness ==
    /\ last.op = "update"
    /\ Len(last.prevData) = 3
    /\ last.prevData[1] # last.prevData[3]
    /\ last.rowIndex = 1
    /\ last.prevData[2] # last.updatedData
    /\ tableData = [last.prevData EXCEPT ![2] = last.updatedData]

(* C6: updateData(i, r) with i >= N on a row set of length N is a silent
   no-op: the row set, its length included, is unchanged. *)
C6_OutOfRangeUpdateIsNoOp ==
    (last.op = "update" /\ last.rowIndex >= Len(last.prevData)) =>
        tableData = last.prevData

(* C7: the augmented column list is the base list in its order, with exactly
   one synthetic column in front when a flag is set (select-expand for both,
   select for selection only, expand for expansion only), and the base list
   itself when none is set. *)
C7_AugmentedColumns ==
    /\ Len(memoCols) = Len(columns) + (IF enableSelection \/ enableExpansion THEN 1 ELSE 0)
    /\ (~enableSelection /\ ~enableExpansion) => memoCols = columns
    /\ (enableSelection \/ enableExpansion) =>
           /\ Tail(memoCols) = columns
           /\ enableSelection /\ enableExpansion => memoCols[1].id = "select-expand"
           /\ enableSelection /\ ~enableExpansion => memoCols[1].id = "select"
           /\ ~enableSelection /\ enableExpansion => memoCols[1].id = "expand"

\* a re-render switched to selection only over two base columns
C7_Witness ==
    /\ last.op = "render"
    /\ enableSelection
    /\ ~enableExpansion
    /\ Len(columns) = MaxCols
    /\ Len(memoCols) = MaxCols + 1
    /\ memoCols[1].id = "select"
    /\ mount.synthetic # "select"

(* C8: useTableContext with no enclosing TableProvider raises
   'useTableContext must be used within a TableProvider' and returns nothing;
   inside a TableProvider it raises nothing and returns the value of the
   nearest enclosing provider. *)
C8_ConsumeNearestOrThrow ==
    last.op = "consume" =>
        /\ (last.site = "outside" /\ outer = <<>>) =>
               /\ last.error = "useTableContext must be used within a TableProvider"
               /\ last.value = <<>>
        /\ (last.site = "outside" /\ outer # <<>>) =>
               /\ last.error = Undefined
               /\ last.value = <<outer[Len(outer)]>>
        /\ last.site = "inside" =>
               /\ last.error = Undefined
               /\ last.value = <<[table |-> "table", updateData |-> "updateData",
                                  enableEditing |-> enableEditing,
                                  enableColumnReorder |-> enableColumnReorder,
                                  columnOrder |-> columnOrder]>>

\* a child of a TableRoot nested under another table's provider read the
\* context after a drag had changed the column order
C8_Witness ==
    /\ last.op = "consume"
    /\ last.site = "inside"
    /\ outer # <<>>
    /\ columnOrder # mount.columnOrder
    /\ last.error = Undefined
    /\ last.value[1].table = "table"
    /\ last.value[1].columnOrder = columnOrder

(* C9: after any sequence of drag-end events, whatever their ids, the column
   order is a permutation of the list built at mount: same length, same
   multiset of ids, no undefined entry. *)
C9_OrderIsPermutationOfMount ==
    /\ SameMultiset(columnOrder, mount.columnOrder)
    /\ ~Occurs(columnOrder, Undefined)

(* C10: with reordering enabled and a synthetic column prepended, the
   synthetic id stays at index 0 of the column order after any sequence of
   drag-end events whose active id is not reserved. *)
C10_SyntheticStaysFirst ==
    (mount.reorder /\ mount.synthetic # Undefined /\ ~reservedDragged) =>
        /\ Len(columnOrder) >= 1
        /\ columnOrder[1] = mount.synthetic

\* a caller column was dropped on the synthetic column after other drags had
\* reordered the caller columns
C10_Witness ==
    /\ mount.reorder
    /\ mount.synthetic # Undefined
    /\ ~reservedDragged
    /\ last.op = "drag"
    /\ last.active \in ColIds
    /\ last.over = mount.synthetic
    /\ columnOrder # mount.columnOrder
    /\ columnOrder[1] = mount.synthetic

====
